---- MODULE Spec2Model ----
(***************************************************************************)
(* State-machine model of the TradingAgents entry scripts (current.py,     *)
(* todays_report.py, main.py) and of the windowing/caching layer of        *)
(* tradingagents/dataflows.                                                *)
(*                                                                         *)
(* Text is modelled as a sequence of tokens: every literal fragment of an  *)
(* f-string is one token, every character produced by a format spec is one *)
(* token.  Money amounts are integers in cents.  Ticker texts are          *)
(* sequences of characters.  An optional value is <<>> (None) or <<v>>.    *)
(***************************************************************************)
EXTENDS Integers, Sequences, FiniteSets, TLC

VARIABLES
    entry,          \* which entry point runs
    pc,             \* position in the running code
    outcome,        \* "running", "done", "exit1" or "exception"
    exc,            \* exception type that ended the run ("" if none)
    args,           \* parsed command-line options (all but the ticker texts)
    use_interactive,\* todays_report.py use_interactive: "unset", "yes", "no"
    ticker,         \* local variable ticker (optional text)
    date,           \* local variable date (optional string)
    gtd_calls,      \* number of calls of get_trading_decision
    price_arg,      \* current_price as the caller passed it
    current_price,  \* get_trading_decision's current_price (optional cents)
    position_info,  \* optional position record
    quote_status,   \* "none", "ok" or "raised"
    quote,          \* provider response: function from a subset of Fields
    quote_msg,      \* optional token text
    report,         \* what current.py printed (optional token text)
    trade_decision, \* "" or the text read from final_trade_decision.md
    decision,       \* optional record returned by get_trading_decision
    saved,          \* quantitative_trading_analysis.md written
    quote_requests, \* sequence of tickers sent to finnhub_client.quote
    llm_invocations,\* number of llm.invoke calls
    input_calls,    \* number of input() calls
    config,         \* main.py config dictionary
    config_writes,  \* item assignments to config, in order
    graph_built,    \* TradingAgentsGraph constructed
    propagated,     \* ta.propagate called
    mode,           \* DataSourceMode of the windowing layer
    calendar,       \* trading days of the provider's maximal series
    snapshots,      \* tickers with a persisted offline snapshot
    cache,          \* windowing layer: (ticker, mode) -> maximal series
    loads,          \* windowing layer: log of maximal-series loads
    requested,      \* windowing layer: keys asked for so far
    call            \* windowing layer: the last windowed call and its result

mainVars == << config, config_writes, graph_built, propagated >>

windowVars == << mode, calendar, snapshots, cache, loads, requested, call >>

vars == << entry, pc, outcome, exc, args, use_interactive, ticker, date,
           gtd_calls, price_arg, current_price, position_info, quote_status,
           quote, quote_msg, report, trade_decision, decision, saved,
           quote_requests, llm_invocations, input_calls, mainVars,
           windowVars >>

----
(* Optional values *)
None == << >>
Some(v) == << v >>
IsNone(x) == x = << >>
Val(x) == x[1]

----
(* Bounds *)
MaxTickerLen == 2
MaxRetryInputs == 2
MaxDay == 3
MaxCalls == 2

----
(* Python string operations on ticker texts *)
Letters == {"a", "A"}
Whitespace == {" "}
ArgAlphabet == {"a", "1"}
InputAlphabet == {"a", "1", " "}

TextsOver(alphabet) ==
    UNION { [1..n -> alphabet] : n \in 0..MaxTickerLen }

UpperChar(c) == IF c = "a" THEN "A" ELSE c

Upper(s) == [i \in 1..Len(s) |-> UpperChar(s[i])]

IsAlpha(s) == Len(s) > 0 /\ \A i \in 1..Len(s) : s[i] \in Letters

IsUpperText(s) == \A i \in 1..Len(s) : s[i] # "a"

RECURSIVE LStrip(_)
LStrip(s) ==
    IF Len(s) > 0 /\ s[1] \in Whitespace THEN LStrip(Tail(s)) ELSE s

RECURSIVE RStrip(_)
RStrip(s) ==
    IF Len(s) > 0 /\ s[Len(s)] \in Whitespace
    THEN RStrip(SubSeq(s, 1, Len(s) - 1))
    ELSE s

Strip(s) == RStrip(LStrip(s))

TruthyText(x) == ~IsNone(x) /\ Len(Val(x)) > 0

TruthyNum(x) == ~IsNone(x) /\ Val(x) # 0

----
(* Python number formatting *)
Digit == << "0", "1", "2", "3", "4", "5", "6", "7", "8", "9" >>

RECURSIVE DigitsOf(_)
DigitsOf(n) ==
    IF n < 10 THEN << Digit[n + 1] >>
    ELSE DigitsOf(n \div 10) \o << Digit[(n % 10) + 1] >>

Abs(n) == IF n < 0 THEN -n ELSE n

\* A formatter that keeps one decimal only (the spec ".1f")
Fmt1f(cents) ==
    (IF cents < 0 THEN << "-" >> ELSE << >>)
        \o DigitsOf(Abs(cents) \div 100)
        \o << ".", Digit[((Abs(cents) % 100) \div 10) + 1] >>

Fmt2f(cents) ==
    (IF cents < 0 THEN << "-" >> ELSE << >>)
        \o DigitsOf(Abs(cents) \div 100)
        \o << ".", Digit[((Abs(cents) % 100) \div 10) + 1],
              Digit[(Abs(cents) % 10) + 1] >>

SpecTwoDecimals == ".2f"
SpecFallback == ".2f if current_price else 0:.2f"

PyFormat(value, fmt) ==
    IF IsNone(value)
    THEN [ok |-> FALSE, exc |-> "TypeError", text |-> << >>]
    ELSE IF fmt = SpecTwoDecimals
         THEN [ok |-> TRUE, exc |-> "", text |-> Fmt2f(Val(value))]
         ELSE [ok |-> FALSE, exc |-> "ValueError", text |-> << >>]

----
(* Provider quote responses *)
Fields == {"c", "d", "dp", "h", "l", "o", "pc"}

ExampleQuote ==
    [c |-> 15000, d |-> 125, dp |-> 84, h |-> 15100, l |-> 14900,
     o |-> 14950, pc |-> 14875]

OtherQuote ==
    [c |-> 0, d |-> -125, dp |-> -5, h |-> 0, l |-> 7, o |-> 100000,
     pc |-> 0]

QuoteResponses ==
    { [k \in {f \in Fields : p[f] # 0} |->
          IF p[k] = 1 THEN ExampleQuote[k] ELSE OtherQuote[k]] :
      p \in [Fields -> 0..2] }

QuoteSamples == { ExampleQuote, << >>, [c |-> 0, dp |-> -5] }

Get(q, k, default) == IF k \in DOMAIN q THEN q[k] ELSE default

MoneyLine(label, value) == << label, "$" >> \o Fmt2f(value) \o << "\n" >>

PercentLine(label, value) == << label >> \o Fmt2f(value) \o << "%", "\n" >>

QuoteMsg(price, q) ==
    << "\n" >>
        \o MoneyLine("Current price: ", price)
        \o MoneyLine("Change: ", Get(q, "d", 0))
        \o PercentLine("Percent change: ", Get(q, "dp", 0))
        \o MoneyLine("High price of the day: ", Get(q, "h", 0))
        \o MoneyLine("Low price of the day: ", Get(q, "l", 0))
        \o MoneyLine("Open price of the day: ", Get(q, "o", 0))
        \o MoneyLine("Previous close price: ", Get(q, "pc", 0))

FallbackMsg(t, price) ==
    LET f == PyFormat(price, SpecFallback) IN
    [ok |-> f.ok, exc |-> f.exc,
     text |-> << "Ticker: " >> \o t \o << "\n", "Current price: ", "$" >>
                  \o f.text \o << "\n" >>]

----
(* Values shared by the entry points *)
Today == "2026-11-01"
ValidDateTexts == {"2024-01-15", Today}
DateTexts == ValidDateTexts \cup {"01/15/2024"}
ArgDateTexts == {"2024-01-15", "01/15/2024"}

\* datetime.strptime(text, "%Y-%m-%d"): "ok", or the exception it raises
Strptime(d) ==
    IF IsNone(d) THEN "TypeError"
    ELSE IF Val(d) \in ValidDateTexts THEN "ok" ELSE "ValueError"

NoArgs ==
    [entry_price |-> None, position_size |-> None,
     risk_tolerance |-> "Medium", trading_style |-> "Swing Trading",
     no_interactive |-> FALSE, interactive |-> FALSE,
     date |-> None, date_alt |-> None]

SamplePosition ==
    [entry_price |-> 15050, size |-> 100, risk_tolerance |-> "Medium",
     trading_style |-> "Swing Trading"]

DefaultConfig ==
    [llm_provider |-> "default", backend_url |-> "default",
     deep_think_llm |-> "default", quick_think_llm |-> "default",
     max_debate_rounds |-> 0, online_tools |-> FALSE]

NoCall ==
    [fn |-> "", ticker |-> "", start |-> 0, end |-> 0, status |-> "none",
     bars |-> << >>, n |-> 0]

ScriptIdle ==
    /\ exc = ""
    /\ use_interactive = "unset"
    /\ ticker = None /\ date = None
    /\ gtd_calls = 0 /\ price_arg = None
    /\ current_price = None /\ position_info = None
    /\ quote_status = "none" /\ quote = << >>
    /\ quote_msg = None /\ report = None
    /\ trade_decision = "" /\ decision = None /\ saved = FALSE
    /\ quote_requests = << >> /\ llm_invocations = 0 /\ input_calls = 0

MainIdle ==
    /\ config = DefaultConfig /\ config_writes = << >>
    /\ graph_built = FALSE /\ propagated = FALSE

WindowIdle ==
    /\ mode = "online" /\ calendar = {} /\ snapshots = {}
    /\ cache = << >> /\ loads = << >> /\ requested = {} /\ call = NoCall

Idle == ScriptIdle /\ MainIdle /\ WindowIdle

ResponsesFor(e) ==
    IF e \in {"current", "get_trading_decision"} THEN QuoteResponses
    ELSE QuoteSamples

Raise(kind) ==
    /\ outcome' = "exception"
    /\ exc' = kind
    /\ pc' = "aborted"

----
(* current.py *)
InitCurrent ==
    /\ entry = "current"
    /\ pc = "cur_parse"
    /\ outcome = "running"
    /\ args = NoArgs
    /\ Idle

\* args = parser.parse_args(); ticker = args.ticker.upper()
CurParse ==
    /\ entry = "current" /\ pc = "cur_parse"
    /\ \E argv_ticker \in TextsOver(ArgAlphabet) :
          ticker' = Some(Upper(argv_ticker))
    /\ pc' = "cur_client"
    /\ UNCHANGED << use_interactive, gtd_calls, price_arg, entry, outcome,
                    exc, args, date, current_price, position_info,
                    quote_status, quote, quote_msg, report, trade_decision,
                    decision, saved, quote_requests, llm_invocations,
                    input_calls, mainVars, windowVars >>

\* finnhub_client = finnhub.Client(api_key=os.environ["FINNHUB_API_KEY"])
CurClient ==
    /\ entry = "current" /\ pc = "cur_client"
    /\ \/ pc' = "cur_quote" /\ UNCHANGED << outcome, exc >>
       \/ Raise("KeyError")
    /\ UNCHANGED << use_interactive, gtd_calls, price_arg, entry, args,
                    ticker, date, current_price, position_info, quote_status,
                    quote, quote_msg, report, trade_decision, decision, saved,
                    quote_requests, llm_invocations, input_calls, mainVars,
                    windowVars >>

\* quote = finnhub_client.quote(ticker); quote_msg = f"""..."""; print
CurQuote ==
    /\ entry = "current" /\ pc = "cur_quote"
    /\ quote_requests' = Append(quote_requests, Val(ticker))
    /\ \/ /\ \E q \in ResponsesFor(entry) :
                /\ quote' = q
                /\ report' = Some(QuoteMsg(Get(q, "c", 0), q))
          /\ quote_status' = "ok"
          /\ pc' = "finished"
          /\ outcome' = "done"
          /\ UNCHANGED exc
       \/ /\ quote_status' = "raised"
          /\ Raise("FinnhubAPIException")
          /\ UNCHANGED << quote, report >>
    /\ UNCHANGED << use_interactive, gtd_calls, price_arg, entry, args,
                    ticker, date, current_price, position_info, quote_msg,
                    trade_decision, decision, saved, llm_invocations,
                    input_calls, mainVars, windowVars >>

----
(* todays_report.py: get_trading_decision *)
InitDecision ==
    /\ entry = "get_trading_decision"
    /\ pc = "gtd_client"
    /\ outcome = "running"
    /\ args = NoArgs
    /\ exc = ""
    /\ use_interactive = "unset"
    /\ ticker = Some(<< "A" >>)
    /\ date \in { Some(d) : d \in ValidDateTexts }
    /\ gtd_calls = 0 /\ price_arg = None
    /\ current_price \in {None, Some(0), Some(12345)}
    /\ position_info \in {None, Some(SamplePosition)}
    /\ quote_status = "none" /\ quote = << >>
    /\ quote_msg = None /\ report = None
    /\ trade_decision = "" /\ decision = None /\ saved = FALSE
    /\ quote_requests = << >> /\ llm_invocations = 0 /\ input_calls = 0
    /\ MainIdle /\ WindowIdle

\* finnhub_client = finnhub.Client(api_key=os.environ["FINNHUB_API_KEY"])
GtdClient ==
    /\ pc = "gtd_client"
    /\ gtd_calls' = gtd_calls + 1
    /\ price_arg' = current_price
    /\ \/ pc' = "gtd_quote" /\ UNCHANGED << outcome, exc >>
       \/ Raise("KeyError")
    /\ UNCHANGED << use_interactive, entry, args, ticker, date, current_price,
                    position_info, quote_status, quote, quote_msg, report,
                    trade_decision, decision, saved, quote_requests,
                    llm_invocations, input_calls, mainVars, windowVars >>

\* The except branch of the quote fetch: builds the fallback quote_msg.
QuoteExcept(t, price) ==
    LET m == FallbackMsg(t, price) IN
    IF m.ok
    THEN /\ quote_msg' = Some(m.text)
         /\ pc' = "gtd_read"
         /\ UNCHANGED << outcome, exc >>
    ELSE /\ Raise(m.exc)
         /\ UNCHANGED quote_msg

\* A quote step that asks the provider a second time when the request fails
GtdQuoteRetry ==
    /\ pc = "gtd_quote"
    /\ \/ /\ quote_requests' = Append(quote_requests, Val(ticker))
          /\ \E q \in ResponsesFor(entry) :
                /\ quote' = q
                /\ current_price' =
                       IF IsNone(current_price) THEN Some(Get(q, "c", 0))
                       ELSE current_price
                /\ quote_msg' = Some(QuoteMsg(Val(current_price'), q))
          /\ quote_status' = "ok"
          /\ pc' = "gtd_read"
          /\ UNCHANGED << outcome, exc >>
       \/ /\ quote_requests' =
                 Append(Append(quote_requests, Val(ticker)), Val(ticker))
          /\ quote_status' = "raised"
          /\ QuoteExcept(Val(ticker), current_price)
          /\ UNCHANGED << quote, current_price >>
    /\ UNCHANGED << use_interactive, gtd_calls, price_arg, entry, args,
                    ticker, date, position_info, report, trade_decision,
                    decision, saved, llm_invocations, input_calls, mainVars,
                    windowVars >>

\* try: quote = finnhub_client.quote(ticker) ... except Exception: ...
GtdQuote ==
    /\ pc = "gtd_quote"
    /\ quote_requests' = Append(quote_requests, Val(ticker))
    /\ \/ /\ \E q \in ResponsesFor(entry) :
                /\ quote' = q
                /\ current_price' =
                       IF IsNone(current_price) THEN Some(Get(q, "c", 0))
                       ELSE current_price
                /\ quote_msg' = Some(QuoteMsg(Val(current_price'), q))
          /\ quote_status' = "ok"
          /\ pc' = "gtd_read"
          /\ UNCHANGED << outcome, exc >>
       \/ /\ quote_status' = "raised"
          /\ QuoteExcept(Val(ticker), current_price)
          /\ UNCHANGED << quote, current_price >>
    /\ UNCHANGED << use_interactive, gtd_calls, price_arg, entry, args,
                    ticker, date, position_info, report, trade_decision,
                    decision, saved, llm_invocations, input_calls, mainVars,
                    windowVars >>

\* A read step whose handlers report the error but do not exit
GtdReadDecisionContinues ==
    /\ pc = "gtd_read"
    /\ \/ /\ trade_decision' = "final_trade_decision"
          /\ UNCHANGED exc
       \/ /\ \E kind \in {"FileNotFoundError", "OSError"} : exc' = kind
          /\ UNCHANGED trade_decision
    /\ pc' = "gtd_invoke"
    /\ UNCHANGED << use_interactive, gtd_calls, price_arg, entry, outcome,
                    args, ticker, date, current_price, position_info,
                    quote_status, quote, quote_msg, report, decision, saved,
                    quote_requests, llm_invocations, input_calls, mainVars,
                    windowVars >>

\* llm = ChatDeepSeek(...); trade_decision = trade_decision_path.read_text()
GtdReadDecision ==
    /\ pc = "gtd_read"
    /\ \/ /\ trade_decision' = "final_trade_decision"
          /\ pc' = "gtd_invoke"
          /\ UNCHANGED << outcome, exc >>
       \/ /\ \E kind \in {"FileNotFoundError", "OSError"} : exc' = kind
          /\ outcome' = "exit1"
          /\ pc' = "exited"
          /\ UNCHANGED trade_decision
    /\ UNCHANGED << use_interactive, gtd_calls, price_arg, entry, args,
                    ticker, date, current_price, position_info, quote_status,
                    quote, quote_msg, report, decision, saved, quote_requests,
                    llm_invocations, input_calls, mainVars, windowVars >>

\* result = llm.invoke(messages); return {...}   (both branches return)
GtdInvoke ==
    /\ pc = "gtd_invoke"
    /\ llm_invocations' = llm_invocations + 1
    /\ \E content \in {"llm_content", "Error generating trading decision"} :
          decision' = Some([ticker |-> Val(ticker), date |-> Val(date),
                            market_data |-> Val(quote_msg),
                            new_decision |-> content])
    /\ IF entry = "get_trading_decision"
       THEN pc' = "finished" /\ outcome' = "done"
       ELSE pc' = "save" /\ UNCHANGED outcome
    /\ UNCHANGED << use_interactive, gtd_calls, price_arg, entry, exc, args,
                    ticker, date, current_price, position_info, quote_status,
                    quote, quote_msg, report, trade_decision, saved,
                    quote_requests, input_calls, mainVars, windowVars >>

\* save_trade_decision(decision, ticker, date); print results
SaveTradeDecision ==
    /\ pc = "save"
    /\ saved' \in BOOLEAN
    /\ pc' = "finished"
    /\ outcome' = "done"
    /\ UNCHANGED << use_interactive, gtd_calls, price_arg, entry, exc, args,
                    ticker, date, current_price, position_info, quote_status,
                    quote, quote_msg, report, trade_decision, decision,
                    quote_requests, llm_invocations, input_calls, mainVars,
                    windowVars >>

----
(* todays_report.py: the __main__ block *)
\* The command line as argparse parses it (args = parser.parse_args()).
ReportArgv ==
    { a \in [ticker : {None} \cup { Some(t) : t \in TextsOver(ArgAlphabet) },
             ticker_alt : {None} \cup { Some(t) : t \in TextsOver(ArgAlphabet) },
             date : {None} \cup { Some(d) : d \in ArgDateTexts },
             date_alt : {None} \cup { Some(d) : d \in ArgDateTexts },
             entry_price : {None, Some(15050)},
             position_size : {None, Some(100)},
             risk_tolerance : {"Medium"},
             trading_style : {"Swing Trading"},
             no_interactive : BOOLEAN,
             interactive : BOOLEAN] :
      \* the positional date is filled only after the positional ticker
      IsNone(a.ticker) => IsNone(a.date) }

\* The options that are read again after the mode has been chosen
Options(a) ==
    [entry_price |-> a.entry_price, position_size |-> a.position_size,
     risk_tolerance |-> a.risk_tolerance, trading_style |-> a.trading_style,
     no_interactive |-> a.no_interactive, interactive |-> a.interactive,
     date |-> a.date, date_alt |-> a.date_alt]

InitReport ==
    /\ entry = "todays_report"
    /\ pc = "rep_mode"
    /\ outcome = "running"
    /\ args = NoArgs
    /\ Idle

\* use_interactive = args.interactive or (not args.ticker and not args.ticker_alt)
UseInteractive(a) ==
    a.interactive \/ (~TruthyText(a.ticker) /\ ~TruthyText(a.ticker_alt))

\* if use_interactive: ticker, date = collect_ticker_and_date()
RepInteractive ==
    /\ entry = "todays_report" /\ pc = "rep_mode"
    /\ \E argv \in ReportArgv :
          /\ UseInteractive(argv)
          /\ args' = Options(argv)
    /\ use_interactive' = "yes"
    /\ pc' = "ask_ticker"
    /\ UNCHANGED << gtd_calls, price_arg, entry, outcome, exc, ticker, date,
                    current_price, position_info, quote_status, quote,
                    quote_msg, report, trade_decision, decision, saved,
                    quote_requests, llm_invocations, input_calls, mainVars,
                    windowVars >>

ArgTicker(a) ==
    IF TruthyText(a.ticker_alt) THEN Upper(Val(a.ticker_alt))
    ELSE Upper(Val(a.ticker))

ArgDate(a) == IF ~IsNone(a.date_alt) THEN a.date_alt ELSE a.date

\* The command-line branch: ticker and date from the arguments, the date
\* validated first, then the ticker.
CommandLine(argv) ==
    /\ args' = Options(argv)
    /\ ticker' = Some(ArgTicker(argv))
    /\ date' = ArgDate(argv)
    /\ CASE Strptime(date') = "TypeError" -> Raise("TypeError")
         [] Strptime(date') = "ValueError" ->
                outcome' = "exit1" /\ pc' = "exited" /\ UNCHANGED exc
         [] OTHER ->
                IF ~IsAlpha(Val(ticker'))
                THEN outcome' = "exit1" /\ pc' = "exited" /\ UNCHANGED exc
                ELSE pc' = "run_agent" /\ UNCHANGED << outcome, exc >>

\* else: ticker = ...upper(); date = ...; validate date, then ticker
RepCommandLine ==
    /\ entry = "todays_report" /\ pc = "rep_mode"
    /\ \E argv \in ReportArgv :
          /\ ~UseInteractive(argv)
          /\ CommandLine(argv)
    /\ use_interactive' = "no"
    /\ UNCHANGED << gtd_calls, price_arg, entry, current_price, position_info,
                    quote_status, quote, quote_msg, report, trade_decision,
                    decision, saved, quote_requests, llm_invocations,
                    input_calls, mainVars, windowVars >>

\* An input() call; a rejected answer (the loop repeats) is allowed only
\* among the first MaxRetryInputs calls.
Input(accepted) ==
    /\ input_calls' = input_calls + 1
    /\ accepted \/ input_calls < MaxRetryInputs

\* collect_ticker_and_date: the ticker loop
AskTicker ==
    /\ pc = "ask_ticker"
    /\ \E answer \in TextsOver(InputAlphabet) :
          LET t == Upper(Strip(answer)) IN
          /\ Input(IsAlpha(t) /\ Len(t) > 0)
          /\ IF IsAlpha(t) /\ Len(t) > 0
             THEN ticker' = Some(t) /\ pc' = "ask_date"
             ELSE UNCHANGED << ticker, pc >>
    /\ UNCHANGED << use_interactive, gtd_calls, price_arg, entry, outcome,
                    exc, args, date, current_price, position_info,
                    quote_status, quote, quote_msg, report, trade_decision,
                    decision, saved, quote_requests, llm_invocations,
                    mainVars, windowVars >>

\* collect_ticker_and_date: the date loop
AskDate ==
    /\ pc = "ask_date"
    /\ \E answer \in {""} \cup DateTexts :
          LET d == IF answer = "" THEN Today ELSE answer IN
          /\ Input(Strptime(Some(d)) = "ok")
          /\ IF Strptime(Some(d)) = "ok"
             THEN date' = Some(d) /\ pc' = "run_agent"
             ELSE UNCHANGED << date, pc >>
    /\ UNCHANGED << use_interactive, gtd_calls, price_arg, entry, outcome,
                    exc, args, ticker, current_price, position_info,
                    quote_status, quote, quote_msg, report, trade_decision,
                    decision, saved, quote_requests, llm_invocations,
                    mainVars, windowVars >>

\* build_position_info_from_args(args)
BuildPositionInfoFromArgs(a) ==
    IF ~(TruthyNum(a.entry_price) \/ TruthyNum(a.position_size)) THEN None
    ELSE IF ~TruthyNum(a.entry_price) \/ ~TruthyNum(a.position_size) THEN None
    ELSE Some([entry_price |-> Val(a.entry_price),
               size |-> Val(a.position_size),
               risk_tolerance |-> a.risk_tolerance,
               trading_style |-> a.trading_style])

\* run_trading_agent, up to the decision whether to prompt for a position
RunAgentPosition ==
    /\ pc = "run_agent"
    /\ position_info' =
           IF TruthyNum(args.entry_price) \/ TruthyNum(args.position_size)
           THEN BuildPositionInfoFromArgs(args)
           ELSE None
    /\ pc' = IF IsNone(position_info') /\ ~args.no_interactive
             THEN "ask_has_position" ELSE "gtd_client"
    /\ UNCHANGED << use_interactive, gtd_calls, price_arg, entry, outcome,
                    exc, args, ticker, date, current_price, quote_status,
                    quote, quote_msg, report, trade_decision, decision, saved,
                    quote_requests, llm_invocations, input_calls, mainVars,
                    windowVars >>

\* collect_position_info: "Enter 'y' for yes, 'n' for no"
AskHasPosition ==
    /\ pc = "ask_has_position"
    /\ \E answer \in {"y", "n", "maybe"} :
          /\ Input(answer \in {"y", "n"})
          /\ pc' = CASE answer = "n" -> "gtd_client"
                     [] answer = "y" -> "ask_position"
                     [] OTHER -> pc
    /\ UNCHANGED << use_interactive, gtd_calls, price_arg, entry, outcome,
                    exc, args, ticker, date, current_price, position_info,
                    quote_status, quote, quote_msg, report, trade_decision,
                    decision, saved, quote_requests, llm_invocations,
                    mainVars, windowVars >>

RiskLevels == << "Conservative", "Medium", "Aggressive" >>
Styles ==
    << "Day Trading", "Swing Trading", "Position Trading",
       "Long-term Investing" >>

PositionFields == << "entry_price", "size", "risk_tolerance", "trading_style" >>

\* What a prompt of collect_position_info stores for a parsed answer;
\* None when the answer is rejected (unparsable or out of range).
PositionAnswer(field, answer) ==
    CASE IsNone(answer) -> None
      [] field \in {"entry_price", "size"} ->
            IF Val(answer) > 0 THEN answer ELSE None
      [] field = "risk_tolerance" ->
            IF Val(answer) \in 1..3 THEN Some(RiskLevels[Val(answer)]) ELSE None
      [] OTHER ->
            IF Val(answer) \in 1..4 THEN Some(Styles[Val(answer)]) ELSE None

PositionAnswers(field) ==
    CASE field = "entry_price" -> {None, Some(0), Some(15050)}
      [] field = "size" -> {None, Some(0), Some(100)}
      [] field = "risk_tolerance" -> {None, Some(4), Some(1), Some(3)}
      [] OTHER -> {None, Some(0), Some(4)}

EmptyPosition == [f \in {} |-> 0]

\* collect_position_info: the four detail loops, one input() per step
AskPosition ==
    /\ pc = "ask_position"
    /\ LET info == IF IsNone(position_info) THEN EmptyPosition
                   ELSE Val(position_info)
           field == PositionFields[Cardinality(DOMAIN info) + 1]
       IN \E answer \in PositionAnswers(field) :
            LET v == PositionAnswer(field, answer) IN
            /\ Input(~IsNone(v))
            /\ IF IsNone(v)
               THEN UNCHANGED << position_info, pc >>
               ELSE /\ position_info' =
                          Some([f \in DOMAIN info \cup {field} |->
                                   IF f = field THEN Val(v) ELSE info[f]])
                    /\ pc' = IF field = "trading_style" THEN "gtd_client"
                             ELSE pc
    /\ UNCHANGED << use_interactive, gtd_calls, price_arg, entry, outcome,
                    exc, args, ticker, date, current_price, quote_status,
                    quote, quote_msg, report, trade_decision, decision, saved,
                    quote_requests, llm_invocations, mainVars, windowVars >>

----
(* main.py *)
ConfigScript ==
    << << "llm_provider", "deepseek" >>,
       << "backend_url", "https://api.deepseek.com/v1" >>,
       << "deep_think_llm", "deepseek-reasoner" >>,
       << "quick_think_llm", "deepseek-chat" >>,
       << "max_debate_rounds", 1 >>,
       << "online_tools", TRUE >> >>

InitMain ==
    /\ entry = "main"
    /\ pc = "main_config"
    /\ outcome = "running"
    /\ args = NoArgs
    /\ ScriptIdle
    \* config = DEFAULT_CONFIG.copy()
    /\ \E tools \in BOOLEAN, rounds \in {1, 3} :
          config = [DefaultConfig EXCEPT !.online_tools = tools,
                                         !.max_debate_rounds = rounds]
    /\ config_writes = << >>
    /\ graph_built = FALSE /\ propagated = FALSE
    /\ WindowIdle

\* config["..."] = ...   (one assignment per step, in script order)
MainSetConfig ==
    /\ entry = "main" /\ pc = "main_config"
    /\ LET w == ConfigScript[Len(config_writes) + 1] IN
       /\ config' = [config EXCEPT ![w[1]] = w[2]]
       /\ config_writes' = Append(config_writes, w[1])
    /\ pc' = IF Len(config_writes') = Len(ConfigScript) THEN "main_parse"
             ELSE pc
    /\ UNCHANGED << use_interactive, gtd_calls, price_arg, entry, outcome,
                    exc, args, ticker, date, current_price, position_info,
                    quote_status, quote, quote_msg, report, trade_decision,
                    decision, saved, quote_requests, llm_invocations,
                    input_calls, graph_built, propagated, windowVars >>

\* args = parse_arguments()   (parser.error exits the process)
MainParseArguments ==
    /\ entry = "main" /\ pc = "main_parse"
    /\ \E argv_ticker \in TextsOver(ArgAlphabet), argv_date \in ArgDateTexts :
          /\ ticker' = Some(argv_ticker)
          /\ date' = Some(argv_date)
          /\ IF Strptime(date') = "ok"
             THEN pc' = "main_graph" /\ UNCHANGED outcome
             ELSE pc' = "exited" /\ outcome' = "exit1"
    /\ UNCHANGED << use_interactive, gtd_calls, price_arg, entry, exc, args,
                    current_price, position_info, quote_status, quote,
                    quote_msg, report, trade_decision, decision, saved,
                    quote_requests, llm_invocations, input_calls, mainVars,
                    windowVars >>

\* A graph construction followed by a late switch of the data-source mode
MainBuildGraphThenReconfigure ==
    /\ entry = "main" /\ pc = "main_graph"
    /\ graph_built' = TRUE
    /\ config' = [config EXCEPT !.online_tools = FALSE]
    /\ config_writes' = Append(config_writes, "online_tools")
    /\ pc' = "main_propagate"
    /\ UNCHANGED << use_interactive, gtd_calls, price_arg, entry, outcome,
                    exc, args, ticker, date, current_price, position_info,
                    quote_status, quote, quote_msg, report, trade_decision,
                    decision, saved, quote_requests, llm_invocations,
                    input_calls, propagated, windowVars >>

\* ta = TradingAgentsGraph(debug=True, config=config, ...)
MainBuildGraph ==
    /\ entry = "main" /\ pc = "main_graph"
    /\ graph_built' = TRUE
    /\ pc' = "main_propagate"
    /\ UNCHANGED << use_interactive, gtd_calls, price_arg, entry, outcome,
                    exc, args, ticker, date, current_price, position_info,
                    quote_status, quote, quote_msg, report, trade_decision,
                    decision, saved, quote_requests, llm_invocations,
                    input_calls, config, config_writes, propagated, windowVars >>

\* _, decision = ta.propagate(args.ticker, args.date); print(decision)
MainPropagate ==
    /\ entry = "main" /\ pc = "main_propagate"
    /\ propagated' = TRUE
    /\ pc' = "finished"
    /\ outcome' = "done"
    /\ UNCHANGED << use_interactive, gtd_calls, price_arg, entry, exc, args,
                    ticker, date, current_price, position_info, quote_status,
                    quote, quote_msg, report, trade_decision, decision, saved,
                    quote_requests, llm_invocations, input_calls, config,
                    config_writes, graph_built, windowVars >>

----
(* tradingagents/dataflows: the windowing and caching layer *)
WindowTickers == {"A", "B"}
Days == 1..MaxDay
Indicators == {"avg_2"}

Bar(t, d) == [date |-> d, close |-> 100 * d + (IF t = "A" THEN 10 ELSE 20)]

\* The maximal series: one bar per trading day, ascending by date
RECURSIVE SeriesFrom(_, _, _)
SeriesFrom(t, days, d) ==
    IF d > MaxDay THEN << >>
    ELSE (IF d \in days THEN << Bar(t, d) >> ELSE << >>)
             \o SeriesFrom(t, days, d + 1)

ProviderSeries(t) == SeriesFrom(t, calendar, 1)

\* A snapshot is a copy of the provider data captured before the last day
SnapshotSeries(t) == SeriesFrom(t, calendar \ {MaxDay}, 1)

Underlying(t) ==
    IF mode = "online" THEN ProviderSeries(t) ELSE SnapshotSeries(t)

\* A scan that leaves out the bar dated end
RECURSIVE WindowHalfOpen(_, _, _)
WindowHalfOpen(series, start, end) ==
    IF series = << >> THEN << >>
    ELSE (IF start <= Head(series).date /\ Head(series).date < end
          THEN << Head(series) >> ELSE << >>)
             \o WindowHalfOpen(Tail(series), start, end)

\* Linear scan selecting the bars whose date lies in [start, end] inclusive
RECURSIVE Window(_, _, _)
Window(series, start, end) ==
    IF series = << >> THEN << >>
    ELSE (IF start <= Head(series).date /\ Head(series).date <= end
          THEN << Head(series) >> ELSE << >>)
             \o Window(Tail(series), start, end)

\* compute(series, "avg_k"): unavailable during the warm-up prefix
Compute(series, k) ==
    [i \in 1..Len(series) |->
        [date |-> series[i].date,
         available |-> i >= k,
         value |-> IF i >= k
                   THEN (series[i].close + series[i - 1].close) \div 2
                   ELSE 0]]

Key(t) == << t, mode >>

\* A cache write that keeps the newest entry only
PutEvicting(k, series) == [x \in {k} |-> series]

Put(k, series) ==
    [x \in DOMAIN cache \cup {k} |-> IF x = k THEN series ELSE cache[x]]

Selected(fn, series, start, end) ==
    IF fn = "get_YFin_data_window" THEN Window(series, start, end)
    ELSE Window(Compute(series, 2), start, end)

Finish(fn, t, ind, start, end, status, series) ==
    call' = [fn |-> fn, ticker |-> t, start |-> start, end |-> end,
             status |-> IF status = "ok" /\ fn # "get_YFin_data_window"
                           /\ ind \notin Indicators
                        THEN "UnknownIndicatorError" ELSE status,
             bars |-> IF status = "ok"
                         /\ (fn = "get_YFin_data_window" \/ ind \in Indicators)
                      THEN Selected(fn, series, start, end) ELSE << >>,
             n |-> call.n + 1]

\* One windowed facade call: validate the window, reuse or load the maximal
\* series for (ticker, mode), then select the window.
WindowedCall(fn, t, ind, start, end) ==
    /\ entry = "dataflows"
    /\ call.n < MaxCalls
    /\ IF start > end
       THEN /\ Finish(fn, t, ind, start, end, "InvalidWindowError", << >>)
            /\ UNCHANGED << cache, loads, requested >>
       ELSE /\ requested' = requested \cup {Key(t)}
            /\ IF Key(t) \in DOMAIN cache
               THEN /\ Finish(fn, t, ind, start, end, "ok", cache[Key(t)])
                    /\ UNCHANGED << cache, loads >>
               ELSE IF mode = "online"
               THEN \/ /\ loads' = Append(loads, [key |-> Key(t),
                                                  source |-> "provider",
                                                  ok |-> TRUE])
                       /\ cache' = Put(Key(t), ProviderSeries(t))
                       /\ Finish(fn, t, ind, start, end, "ok", cache'[Key(t)])
                    \/ /\ loads' = Append(loads, [key |-> Key(t),
                                                  source |-> "provider",
                                                  ok |-> FALSE])
                       /\ Finish(fn, t, ind, start, end, "ProviderError", << >>)
                       /\ UNCHANGED cache
               ELSE IF t \in snapshots
               THEN /\ loads' = Append(loads, [key |-> Key(t),
                                               source |-> "snapshot",
                                               ok |-> TRUE])
                    /\ cache' = Put(Key(t), SnapshotSeries(t))
                    /\ Finish(fn, t, ind, start, end, "ok", cache'[Key(t)])
               ELSE /\ Finish(fn, t, ind, start, end, "CacheMissError", << >>)
                    /\ UNCHANGED << cache, loads >>
    /\ UNCHANGED << entry, pc, outcome, exc, args, use_interactive, ticker,
                    date, gtd_calls, price_arg, current_price, position_info,
                    quote_status, quote, quote_msg, report, trade_decision,
                    decision, saved, quote_requests, llm_invocations,
                    input_calls, mainVars, mode, calendar, snapshots >>

GetYFinDataWindow ==
    \E t \in WindowTickers, start \in Days, end \in Days :
        WindowedCall("get_YFin_data_window", t, "", start, end)

GetStockStatsIndicatorsWindow ==
    \E t \in WindowTickers, ind \in Indicators \cup {"unknown"},
       start \in Days, end \in Days :
        WindowedCall("get_stock_stats_indicators_window", t, ind, start, end)

InitWindow ==
    /\ entry = "dataflows"
    /\ pc = "calls"
    /\ outcome = "running"
    /\ args = NoArgs
    /\ ScriptIdle /\ MainIdle
    /\ mode \in {"online", "offline"}
    /\ calendar \in SUBSET Days
    /\ snapshots \in SUBSET WindowTickers
    /\ cache = << >> /\ loads = << >> /\ requested = {} /\ call = NoCall

NextWindow == GetYFinDataWindow \/ GetStockStatsIndicatorsWindow

SpecWindow == InitWindow /\ [][NextWindow]_vars

----
Init == InitCurrent \/ InitDecision \/ InitReport \/ InitMain

Next ==
    \/ CurParse \/ CurClient \/ CurQuote
    \/ GtdClient \/ GtdQuote \/ GtdReadDecision \/ GtdInvoke
    \/ SaveTradeDecision
    \/ RepInteractive \/ RepCommandLine \/ AskTicker \/ AskDate
    \/ RunAgentPosition \/ AskHasPosition \/ AskPosition
    \/ MainSetConfig \/ MainParseArguments \/ MainBuildGraph \/ MainPropagate

Spec == Init /\ [][Next]_vars

----
(* Reading a report text back *)
RECURSIVE SplitLines(_, _)
SplitLines(text, line) ==
    IF text = << >> THEN << line >>
    ELSE IF Head(text) = "\n"
         THEN << line >> \o SplitLines(Tail(text), << >>)
         ELSE SplitLines(Tail(text), Append(line, Head(text)))

DigitTokens == { Digit[i] : i \in 1..10 }

DigitValue(c) == CHOOSE v \in 0..9 : Digit[v + 1] = c

RECURSIVE ReadNat(_)
ReadNat(s) ==
    IF s = << >> THEN 0
    ELSE 10 * ReadNat(SubSeq(s, 1, Len(s) - 1)) + DigitValue(s[Len(s)])

Unsigned(s) == IF s # << >> /\ s[1] = "-" THEN Tail(s) ELSE s

\* digits, a point, exactly two digits (with an optional leading minus)
IsTwoDecimals(s) ==
    LET u == Unsigned(s) IN
    /\ Len(u) >= 4
    /\ u[Len(u) - 2] = "."
    /\ \A i \in 1..Len(u) : i # Len(u) - 2 => u[i] \in DigitTokens

ReadCents(s) ==
    LET u == Unsigned(s)
        n == 100 * ReadNat(SubSeq(u, 1, Len(u) - 3))
                 + ReadNat(SubSeq(u, Len(u) - 1, Len(u)))
    IN IF u = s THEN n ELSE -n

Contains(text, part) ==
    \E i \in 0..(Len(text) - Len(part)) :
        SubSeq(text, i + 1, i + Len(part)) = part

Labels ==
    << "Current price: ", "Change: ", "Percent change: ",
       "High price of the day: ", "Low price of the day: ",
       "Open price of the day: ", "Previous close price: " >>

LabelField == << "c", "d", "dp", "h", "l", "o", "pc" >>

\* The text is exactly the seven labelled lines, and each number reads back
\* as the value of its field (price for the first line).
ReportReads(text, price, q) ==
    LET ls == SplitLines(text, << >>) IN
    /\ Len(ls) = 9
    /\ ls[1] = << >> /\ ls[9] = << >>
    /\ \A i \in 1..7 :
          LET line == ls[i + 1]
              value == IF i = 1 THEN price ELSE Get(q, LabelField[i], 0)
          IN /\ Len(line) >= 2
             /\ line[1] = Labels[i]
             /\ IF i = 3
                THEN LET num == SubSeq(line, 2, Len(line) - 1) IN
                     /\ line[Len(line)] = "%"
                     /\ IsTwoDecimals(num)
                     /\ ReadCents(num) = value
                ELSE LET num == SubSeq(line, 3, Len(line)) IN
                     /\ line[2] = "$"
                     /\ IsTwoDecimals(num)
                     /\ ReadCents(num) = value

ExampleShown(text, q) ==
    q = ExampleQuote =>
        /\ Contains(text, << "Current price: ", "$", "1", "5", "0", ".", "0",
                             "0" >>)
        /\ Contains(text, << "Percent change: ", "0", ".", "8", "4", "%" >>)

InDecision == entry \in {"get_trading_decision", "todays_report"}

CountOf(seq, x) == Cardinality({ i \in 1..Len(seq) : seq[i] = x })

----
(* Claims *)

\* C1: when finnhub_client.quote raises inside get_trading_decision, the call
\* does not abort: it goes on with a market-data text showing the
\* caller-supplied current_price, or 0.00 when none was given.
C1_FailedFetchContinues ==
    (InDecision /\ quote_status = "raised") =>
        /\ outcome # "exception"
        /\ ~IsNone(quote_msg)
        /\ Contains(Val(quote_msg),
                    << "Current price: ", "$" >>
                        \o Fmt2f(IF IsNone(price_arg) THEN 0
                                 ELSE Val(price_arg)))

\* C3: in current.py and todays_report.py every ticker sent to the quote
\* provider is non-empty, uppercase and letters only.
C3_TickerValidatedBeforeQuote ==
    entry \in {"current", "todays_report"} =>
        \A i \in 1..Len(quote_requests) :
            IsAlpha(quote_requests[i]) /\ IsUpperText(quote_requests[i])

\* C4 (as stated): for every quote response the report of current.py and of
\* get_trading_decision is the seven labelled lines with two decimals, every
\* line showing its response field (0.00 when absent), and the example
\* response shows "Current price: $150.00" and "Percent change: 0.84%".
C4_ReportShowsResponseFields ==
    /\ (entry = "current" /\ ~IsNone(report)) =>
          /\ ReportReads(Val(report), Get(quote, "c", 0), quote)
          /\ ExampleShown(Val(report), quote)
    /\ (InDecision /\ quote_status = "ok") =>
          /\ ~IsNone(quote_msg)
          /\ ReportReads(Val(quote_msg), Get(quote, "c", 0), quote)
          /\ ExampleShown(Val(quote_msg), quote)

\* C4 (amended): as above, except that the Current price line of
\* get_trading_decision shows the caller-supplied current_price when one was
\* passed, and the response's c (0.00 when absent) only when none was passed.
C4_QuoteReportFormat ==
    /\ (entry = "current" /\ ~IsNone(report)) =>
          /\ ReportReads(Val(report), Get(quote, "c", 0), quote)
          /\ ExampleShown(Val(report), quote)
    /\ (InDecision /\ quote_status = "ok") =>
          /\ ~IsNone(quote_msg)
          /\ ReportReads(Val(quote_msg),
                         IF IsNone(price_arg) THEN Get(quote, "c", 0)
                         ELSE Val(price_arg),
                         quote)
          /\ IsNone(price_arg) => ExampleShown(Val(quote_msg), quote)

C4_Witness ==
    /\ entry = "get_trading_decision"
    /\ quote_status = "ok"
    /\ IsNone(price_arg)
    /\ DOMAIN quote = {"c", "dp"}
    /\ quote["dp"] < 0
    /\ ~IsNone(quote_msg)

\* C7: main.py writes config["online_tools"] exactly once, before the graph
\* is constructed and before propagate, and writes no config entry once the
\* graph has been constructed.
C7_ConfigSetOnceBeforeGraph ==
    /\ [](entry = "main" =>
            /\ CountOf(config_writes, "online_tools") <= 1
            /\ propagated => graph_built
            /\ graph_built =>
                  /\ CountOf(config_writes, "online_tools") = 1
                  /\ config.online_tools = TRUE)
    /\ [][graph_built => (config' = config /\ config_writes' = config_writes)]_vars

C7_Witness ==
    /\ entry = "main"
    /\ propagated
    /\ CountOf(config_writes, "online_tools") = 1

\* C8: no provider call is retried: a run of current.py main or a call of
\* get_trading_decision sends at most one quote request, whether it succeeds
\* or fails, and a call of get_trading_decision invokes the LLM at most once.
C8_NoAutomaticRetry ==
    entry \in {"current", "get_trading_decision", "todays_report"} =>
        /\ Len(quote_requests) <= 1
        /\ InDecision => Len(quote_requests) <= gtd_calls
        /\ llm_invocations <= gtd_calls
        /\ llm_invocations <= 1

C8_Witness ==
    /\ entry = "get_trading_decision"
    /\ quote_status = "raised"
    /\ outcome # "running"
    /\ Len(quote_requests) = 1

\* C9: todays_report.py in command-line mode with a valid ticker and no date
\* analyzes the ticker for today: date is today's date and the run does not
\* end before get_trading_decision is called.
C9_NoDateMeansToday ==
    (/\ entry = "todays_report"
     /\ use_interactive = "no"
     /\ IsAlpha(Val(ticker))
     /\ IsNone(args.date) /\ IsNone(args.date_alt)) =>
        /\ date = Some(Today)
        /\ outcome # "running" => gtd_calls > 0

\* C10: with --no-interactive, todays_report.py never calls input().
C10_NoInteractiveNeverPrompts ==
    (entry = "todays_report" /\ args.no_interactive) => input_calls = 0

ReadFailed == exc \in {"FileNotFoundError", "OSError"}

\* C11: when final_trade_decision.md is missing or unreadable,
\* get_trading_decision ends the process with exit status 1 before the LLM
\* is invoked, and save_trade_decision is never reached, so no
\* quantitative_trading_analysis.md is written; the LLM is invoked only
\* after the file has been read.
C11_MissingDecisionExits ==
    /\ [](InDecision =>
            /\ ReadFailed =>
                  /\ outcome = "exit1"
                  /\ pc = "exited"
                  /\ llm_invocations = 0
                  /\ IsNone(decision)
                  /\ ~saved
            /\ llm_invocations > 0 => trade_decision = "final_trade_decision"
            /\ saved => llm_invocations > 0)
    /\ [][ReadFailed =>
            /\ llm_invocations' = llm_invocations
            /\ saved' = saved
            /\ pc' = pc]_vars

C11_Witness ==
    /\ entry = "todays_report"
    /\ exc = "FileNotFoundError"
    /\ outcome = "exit1"
    /\ quote_status = "ok"
    /\ llm_invocations = 0

----
(* Claims about the windowing and caching layer *)
InWindow(d, c) == c.start <= d /\ d <= c.end

\* C5: for start <= end, get_YFin_data_window returns exactly the bars of the
\* underlying series dated in [start, end], ascending and without
\* duplicates; a window outside the series gives the empty sequence, not an
\* error; non-trading days are omitted.
C5_WindowExact ==
    (call.fn = "get_YFin_data_window" /\ call.start <= call.end) =>
        /\ call.status \in {"ok", "ProviderError", "CacheMissError"}
        /\ Key(call.ticker) \in DOMAIN cache => call.status = "ok"
        /\ call.status = "ok" =>
              LET u == Underlying(call.ticker)
                  b == call.bars
              IN /\ \A i \in 1..Len(b) :
                        /\ InWindow(b[i].date, call)
                        /\ b[i].date \in calendar
                        /\ \E j \in 1..Len(u) : u[j] = b[i]
                 /\ \A i, j \in 1..Len(b) : i < j => b[i].date < b[j].date
                 /\ \A j \in 1..Len(u) :
                        InWindow(u[j].date, call) =>
                            \E i \in 1..Len(b) : b[i] = u[j]

C5_Witness ==
    /\ call.fn = "get_YFin_data_window"
    /\ call.status = "ok"
    /\ call.start < call.end
    /\ call.start \notin calendar
    /\ Len(call.bars) >= 1
    /\ Len(call.bars) < Len(Underlying(call.ticker))

ProviderFetches == { i \in 1..Len(loads) : loads[i].source = "provider" }

SuccessfulLoads == { i \in 1..Len(loads) : loads[i].ok }

\* C6 (as stated): the number of provider fetches of the maximal series
\* equals the number of distinct (ticker, mode) keys requested.
C6_FetchesEqualRequestedKeys ==
    Cardinality(ProviderFetches) = Cardinality(requested)

\* C6 (amended): the number of successful loads of the maximal series (a
\* provider fetch online, a snapshot read offline) equals the number of keys
\* in the cache; a call for a cached key loads nothing; a cache entry once
\* written is never evicted or overwritten.
C6_CacheReuse ==
    /\ [](/\ Cardinality(SuccessfulLoads) = Cardinality(DOMAIN cache)
          /\ \A i \in SuccessfulLoads : loads[i].key \in DOMAIN cache
          /\ \A i, j \in SuccessfulLoads :
                loads[i].key = loads[j].key => i = j)
    /\ [][/\ (call' # call /\ call'.start <= call'.end
                 /\ Key(call'.ticker) \in DOMAIN cache) => loads' = loads
          /\ \A k \in DOMAIN cache :
                k \in DOMAIN cache' /\ cache'[k] = cache[k]]_vars

C6_Witness ==
    /\ call.n = 2
    /\ call.status = "ok"
    /\ Len(loads) = 1
    /\ loads[1].ok
    /\ loads[1].key = Key(call.ticker)
    /\ requested = {Key(call.ticker)}

====
